---- MODULE Spec2Model ----
(***************************************************************************)
(* A model of c2m.py, the Confluence-to-Markdown converter.                *)
(*                                                                         *)
(* Strings are sequences of one-character strings, so that the script's    *)
(* string operations (strip, lower, re.sub, str.replace, split, urlparse)  *)
(* are computed character by character.  The one exception is the          *)
(* no-break space U+00A0, written as the element "NBSP".                   *)
(***************************************************************************)
EXTENDS Integers, Sequences, FiniteSets, TLC

VARIABLES
    pc,                  \* position of the main script / of the walk
    err,                 \* the exception that ended the run, "none" otherwise
    dir,                 \* the images directory: [exists, files]
    clears,              \* how many times clear_images_folder has run
    fetched,             \* whether the page request has been issued
    writes,              \* files written into images/ so far, in order
    doc,                 \* the elements handed to the converter so far
    headings,            \* TwoPassConverter.headings
    toc_placeholders,    \* TwoPassConverter.toc_placeholders
    last_heading_level,  \* TwoPassConverter.last_heading_level
    out,                 \* Markdown returned by the convert_* calls so far
    final,               \* the result of finalize_toc
    arg,                 \* the argument of a function under test
    ret                  \* its result

vars == <<pc, err, dir, clears, fetched, writes, doc, headings,
          toc_placeholders, last_heading_level, out, final, arg, ret>>

runVars == <<pc, err, dir, clears, fetched, writes, doc, headings,
             toc_placeholders, last_heading_level, out, final>>

(***************************************************************************)
(* Bounds of the model.                                                    *)
(***************************************************************************)
MaxLen == 4        \* longest input string of slugify
MaxElems == 3      \* longest document walked by the converter
MaxAtts == 3       \* longest attachment listing
MaxHeadings == 4   \* longest run of headings of the clamping walk
MaxTexts == 1      \* headings of the heading-text walk
MaxLinks == 1      \* links of the link walk
MaxHref == 3       \* longest tail of an href

(***************************************************************************)
(* Characters and strings.                                                 *)
(***************************************************************************)
UpperAlpha == <<"A","B","C","D","E","F","G","H","I","J","K","L","M",
                "N","O","P","Q","R","S","T","U","V","W","X","Y","Z">>
LowerAlpha == <<"a","b","c","d","e","f","g","h","i","j","k","l","m",
                "n","o","p","q","r","s","t","u","v","w","x","y","z">>
DigitChars == {"0","1","2","3","4","5","6","7","8","9"}
SpaceChars == {" ", "\t", "\n", "NBSP"}
UpperChars == {UpperAlpha[i] : i \in 1..26}
LowerChars == {LowerAlpha[i] : i \in 1..26}
WordChars == UpperChars \cup LowerChars \cup DigitChars \cup {"_"}

\* str.lower() on one character
LowerChar(c) ==
    IF c \in UpperChars
    THEN LowerAlpha[CHOOSE i \in 1..26 : UpperAlpha[i] = c]
    ELSE c

\* str.lower()
Lower(s) == [i \in 1..Len(s) |-> LowerChar(s[i])]

RECURSIVE LStrip(_)
LStrip(s) ==
    IF s # <<>> /\ Head(s) \in SpaceChars THEN LStrip(Tail(s)) ELSE s

RECURSIVE RStrip(_)
RStrip(s) ==
    IF s # <<>> /\ s[Len(s)] \in SpaceChars
    THEN RStrip(SubSeq(s, 1, Len(s) - 1))
    ELSE s

\* str.strip()
Strip(s) == RStrip(LStrip(s))

\* s.startswith(p)
StartsWith(s, p) == Len(p) <= Len(s) /\ SubSeq(s, 1, Len(p)) = p

\* the least index at which p occurs in s, 0 when it does not (s.find(p) + 1)
Find(s, p) ==
    LET hits == {i \in 1..(Len(s) - Len(p) + 1) : SubSeq(s, i, i + Len(p) - 1) = p}
    IN  IF hits = {} THEN 0 ELSE CHOOSE i \in hits : \A j \in hits : i <= j

\* p in s
Contains(s, p) == Find(s, p) # 0

\* s.replace(old, new), old non-empty: left to right, non-overlapping, the
\* replacement text is not scanned again
RECURSIVE Replace(_, _, _)
Replace(s, old, new) ==
    LET i == Find(s, old)
    IN  IF i = 0
        THEN s
        ELSE SubSeq(s, 1, i - 1) \o new
             \o Replace(SubSeq(s, i + Len(old), Len(s)), old, new)

\* re.sub(r"[^\w\s-]", "", s)
RECURSIVE RemovePunct(_)
RemovePunct(s) ==
    IF s = <<>> THEN <<>>
    ELSE IF Head(s) \in WordChars \cup SpaceChars \cup {"-"}
         THEN <<Head(s)>> \o RemovePunct(Tail(s))
         ELSE RemovePunct(Tail(s))

\* re.sub(cls+, rep, s) for a character class cls: every maximal run of
\* characters of cls becomes one rep
RECURSIVE SubRuns(_, _, _)
SubRuns(s, cls, rep) ==
    IF s = <<>> THEN <<>>
    ELSE IF Head(s) \in cls
         THEN IF Len(s) > 1 /\ s[2] \in cls
              THEN SubRuns(Tail(s), cls, rep)
              ELSE rep \o SubRuns(Tail(s), cls, rep)
         ELSE <<Head(s)>> \o SubRuns(Tail(s), cls, rep)

\* A slugify with the punctuation removed last instead of second.
slugify_late_punct(text) ==
    RemovePunct(SubRuns(SubRuns(Lower(Strip(text)), SpaceChars, <<"-">>),
                        {"-"}, <<"-">>))

\* TwoPassConverter.slugify
slugify(text) ==
    LET s1 == Lower(Strip(text))
        s2 == RemovePunct(s1)
        s3 == SubRuns(s2, SpaceChars, <<"-">>)
        s4 == SubRuns(s3, {"-"}, <<"-">>)
    IN  s4

\* all strings over alphabet a of length at most n
StringsUpTo(a, n) == UNION {[1..k -> a] : k \in 0..n}

(***************************************************************************)
(* The state before the script starts; the specifications of single        *)
(* functions leave it untouched.                                           *)
(***************************************************************************)
NotCalled == [done |-> FALSE]
Returned(v) == [done |-> TRUE, raised |-> FALSE, value |-> v]
Raised(e) == [done |-> TRUE, raised |-> TRUE, value |-> e]

RunAt(p) ==
    /\ pc = p
    /\ err = "none"
    /\ dir = [exists |-> FALSE, files |-> {}]
    /\ clears = 0
    /\ fetched = FALSE
    /\ writes = <<>>
    /\ doc = <<>>
    /\ headings = <<>>
    /\ toc_placeholders = <<>>
    /\ last_heading_level = 0
    /\ out = <<>>
    /\ final = <<>>

RunIdle == RunAt("idle")

(***************************************************************************)
(* slugify applied to a string, and then to its own result.                *)
(***************************************************************************)
SlugAlphabet == {"A", "a", "1", "_", " ", "-", "!"}

InitSlug ==
    /\ RunIdle
    /\ arg \in StringsUpTo(SlugAlphabet, MaxLen)
    /\ ret = NotCalled

SlugifyOnce ==
    /\ ret = NotCalled
    /\ ret' = [done |-> TRUE, first |-> slugify(arg), twice |-> FALSE]
    /\ UNCHANGED <<runVars, arg>>

SlugifyAgain ==
    /\ ret.done
    /\ ~ret.twice
    /\ ret' = [ret EXCEPT !.twice = TRUE] @@ [second |-> slugify(ret.first)]
    /\ UNCHANGED <<runVars, arg>>

NextSlug == SlugifyOnce \/ SlugifyAgain

SpecSlug == InitSlug /\ [][NextSlug]_vars

\* C9: slugify is idempotent: slugify(slugify(x)) = slugify(x) for every
\* input string x.
C9_SlugifyIdempotent ==
    (ret.done /\ ret.twice) => ret.second = ret.first

\* C9 witness: an input with upper case, punctuation, blanks and hyphens that
\* slugify changes has been slugified twice.
C9_Witness ==
    /\ ret.done /\ ret.twice
    /\ arg = <<"A", "!", " ", "-">>
    /\ ret.first = <<"a", "-">>

(***************************************************************************)
(* Values shared by the script's functions.                                *)
(***************************************************************************)
\* Python's None, distinct from every string
None == <<"None">>

\* "not v" for a value that is None or a string
Falsy(v) == v = None \/ v = <<>>

\* BASE_URL as the main script derives it: scheme://netloc of PAGE_URL
BASE_URL == <<"h","t","t","p","s",":","/","/","h">>

\* BASE_URL.rstrip("/")
RECURSIVE RStripSlash(_)
RStripSlash(s) ==
    IF s # <<>> /\ s[Len(s)] = "/"
    THEN RStripSlash(SubSeq(s, 1, Len(s) - 1))
    ELSE s

(***************************************************************************)
(* get_drawio_attachment.  The response of the attachment-listing request  *)
(* is [ok, results]; an attachment is [title, mediaType, download].        *)
(***************************************************************************)
PngSuffix == <<".","p","n","g">>
DrawioPngSuffix == <<".","d","r","a","w","i","o",".","p","n","g">>

\* possibilities = [diagram_name + ".png", diagram_name + ".drawio.png"]
Possibilities(diagram_name) ==
    {diagram_name \o PngSuffix, diagram_name \o DrawioPngSuffix}

\* A filter that keeps every attachment, whatever its media type.
PngAttachments_unfiltered(results) == results

\* png_attachments = [a for a in results if mediaType == "image/png"]
PngAttachments(results) ==
    SelectSeq(results, LAMBDA a : a.mediaType = "image/png")

\* return BASE_URL.rstrip("/") + dl_link, att["title"]
AttachmentResult(att) ==
    [url |-> RStripSlash(BASE_URL) \o att.download, title |-> att.title]

get_drawio_attachment(resp, diagram_name) ==
    IF ~resp.ok
    THEN Raised("HTTPError")
    ELSE
      LET png_attachments == PngAttachments(resp.results)
          matching == {i \in 1..Len(png_attachments) :
                          png_attachments[i].title \in Possibilities(diagram_name)}
      IN  IF png_attachments = <<>>
          THEN Returned([url |-> None, title |-> None])
          ELSE IF ~Falsy(diagram_name) /\ matching # {}
          THEN Returned(AttachmentResult(
                   png_attachments[CHOOSE i \in matching :
                                       \A j \in matching : i <= j]))
          ELSE Returned(AttachmentResult(png_attachments[1]))

NameA == <<"a">>
NameB == <<"b">>
NameADrawio == <<"a",".","d","r","a","w","i","o">>
DiagramNames == {<<>>, NameA, NameB, NameADrawio}
AttTitles == {NameA \o PngSuffix, NameA \o DrawioPngSuffix,
              NameADrawio \o DrawioPngSuffix, <<"c",".","p","n","g">>}
MediaTypes == {"image/png", "image/jpeg"}
DownloadPrefix == <<"/","d","/">>
Attachments ==
    {[title |-> t, mediaType |-> m, download |-> DownloadPrefix \o t] :
        t \in AttTitles, m \in MediaTypes}
Listings == UNION {[1..k -> Attachments] : k \in 0..MaxAtts}

InitAtt ==
    /\ RunIdle
    /\ arg \in [resp : [ok : BOOLEAN, results : Listings] ,
                diagram_name : DiagramNames]
    /\ ret = NotCalled

CallGetDrawioAttachment ==
    /\ ret = NotCalled
    /\ ret' = get_drawio_attachment(arg.resp, arg.diagram_name)
    /\ UNCHANGED <<runVars, arg>>

NextAtt == CallGetDrawioAttachment

SpecAtt == InitAtt /\ [][NextAtt]_vars

\* the positions of the listing that hold a PNG attachment
PngPositions(results) ==
    {i \in 1..Len(results) : results[i].mediaType = "image/png"}

\* the positions of the listing that hold a PNG titled {name}.png or
\* {name}.drawio.png
NamedPositions(results, name) ==
    {i \in PngPositions(results) :
        \/ results[i].title = name \o PngSuffix
        \/ results[i].title = name \o DrawioPngSuffix}

Least(S) == CHOOSE i \in S : \A j \in S : i <= j

\* C8: get_drawio_attachment considers only PNG attachments; with a diagram
\* name it returns the first PNG titled {name}.png or {name}.drawio.png when
\* there is one and the first PNG of the listing otherwise; without a name it
\* returns the first PNG; it reports no attachment only when the listing has
\* no PNG.
C8_AttachmentChoice ==
    (ret.done /\ arg.resp.ok) =>
        LET results == arg.resp.results
            name == arg.diagram_name
            pngs == PngPositions(results)
            named == NamedPositions(results, name)
            chosen == IF name # <<>> /\ named # {} THEN Least(named)
                      ELSE Least(pngs)
        IN  /\ ~ret.raised
            /\ (ret.value.url = None) <=> (pngs = {})
            /\ pngs = {} => ret.value.title = None
            /\ pngs # {} =>
                /\ ret.value.title = results[chosen].title
                /\ ret.value.url = BASE_URL \o results[chosen].download

\* C8 witness: the named diagram's PNG is returned although a non-PNG with a
\* matching title and another PNG come before it in the listing.
C8_Witness ==
    /\ ret.done /\ arg.resp.ok
    /\ arg.diagram_name = NameA
    /\ Len(arg.resp.results) = 3
    /\ arg.resp.results[1].mediaType = "image/jpeg"
    /\ arg.resp.results[1].title = NameA \o PngSuffix
    /\ arg.resp.results[2].mediaType = "image/png"
    /\ arg.resp.results[2].title = <<"c",".","p","n","g">>
    /\ arg.resp.results[3].mediaType = "image/png"
    /\ arg.resp.results[3].title = NameA \o DrawioPngSuffix
    /\ ret.value.title = NameA \o DrawioPngSuffix

(***************************************************************************)
(* urllib.parse as extract_page_info uses it.                              *)
(***************************************************************************)
\* the least index of s holding a character of cs, Len(s) + 1 when none does
FirstOf(s, cs) ==
    LET hits == {i \in 1..Len(s) : s[i] \in cs}
    IN  IF hits = {} THEN Len(s) + 1 ELSE CHOOSE i \in hits : \A j \in hits : i <= j

\* s.split(sep) for a one-character separator
RECURSIVE Split(_, _)
Split(s, sep) ==
    LET i == FirstOf(s, {sep})
    IN  IF i > Len(s)
        THEN <<s>>
        ELSE <<SubSeq(s, 1, i - 1)>> \o Split(SubSeq(s, i + 1, Len(s)), sep)

SchemeChars == UpperChars \cup LowerChars \cup DigitChars \cup {"+", "-", "."}

\* urlparse(url): [scheme, netloc, path, query]
urlparse(url) ==
    LET colon == FirstOf(url, {":"})
        hasScheme == /\ colon <= Len(url)
                     /\ colon > 1
                     /\ url[1] \in UpperChars \cup LowerChars
                     /\ \A i \in 1..(colon - 1) : url[i] \in SchemeChars
        scheme == IF hasScheme THEN Lower(SubSeq(url, 1, colon - 1)) ELSE <<>>
        rest1 == IF hasScheme THEN SubSeq(url, colon + 1, Len(url)) ELSE url
        hasNetloc == StartsWith(rest1, <<"/", "/">>)
        afterSlashes == SubSeq(rest1, 3, Len(rest1))
        netEnd == FirstOf(afterSlashes, {"/", "?", "#"})
        netloc == IF hasNetloc THEN SubSeq(afterSlashes, 1, netEnd - 1) ELSE <<>>
        rest2 == IF hasNetloc
                 THEN SubSeq(afterSlashes, netEnd, Len(afterSlashes))
                 ELSE rest1
        hash == FirstOf(rest2, {"#"})
        rest3 == SubSeq(rest2, 1, hash - 1)
        qmark == FirstOf(rest3, {"?"})
    IN  [scheme |-> scheme,
         netloc |-> netloc,
         path |-> SubSeq(rest3, 1, qmark - 1),
         query |-> SubSeq(rest3, qmark + 1, Len(rest3))]

\* the percent escapes the model's inputs use, with the character they encode
PercentEscapes ==
    {<<<<"%","2","0">>, " ">>, <<<<"%","2","B">>, "+">>,
     <<<<"%","2","F">>, "/">>, <<<<"%","2","5">>, "%">>}

\* unquote(s): one left-to-right pass of percent-decoding
RECURSIVE unquote(_)
unquote(s) ==
    IF s = <<>> THEN <<>>
    ELSE LET esc == {e \in PercentEscapes : StartsWith(s, e[1])}
         IN  IF esc # {}
             THEN <<(CHOOSE e \in esc : TRUE)[2]>> \o unquote(SubSeq(s, 4, Len(s)))
             ELSE <<Head(s)>> \o unquote(Tail(s))

\* unquote_plus(s) = unquote(s.replace("+", " "))
unquote_plus(s) == unquote([i \in 1..Len(s) |-> IF s[i] = "+" THEN " " ELSE s[i]])

\* parse_qs(query) as a sequence of <<name, value>> pairs in query order;
\* a field without "=" or with an empty value is dropped
\* (keep_blank_values=False), names and values are plus- and percent-decoded
ParseQsPairs(query) ==
    LET fields == Split(query, "&")
        eq(f) == FirstOf(f, {"="})
        kept == SelectSeq(fields, LAMBDA f : eq(f) < Len(f))
    IN  [i \in 1..Len(kept) |->
            <<unquote_plus(SubSeq(kept[i], 1, eq(kept[i]) - 1)),
              unquote_plus(SubSeq(kept[i], eq(kept[i]) + 1, Len(kept[i])))>>]

\* qs.get(key, [None])[0]
QsGetFirst(pairs, key) ==
    LET hits == {i \in 1..Len(pairs) : pairs[i][1] = key}
    IN  IF hits = {} THEN None
        ELSE pairs[CHOOSE i \in hits : \A j \in hits : i <= j][2]

(***************************************************************************)
(* extract_page_info                                                       *)
(***************************************************************************)
StrViewpage == <<"v","i","e","w","p","a","g","e",".","a","c","t","i","o","n">>
StrDisplay == <<"d","i","s","p","l","a","y">>
StrWiki == <<"w","i","k","i">>
StrSpaces == <<"s","p","a","c","e","s">>
StrPages == <<"p","a","g","e","s">>
StrPageId == <<"p","a","g","e","I","d">>
StrSpaceKey == <<"s","p","a","c","e","K","e","y">>
StrTitle == <<"t","i","t","l","e">>

PageInfo(space_key, page_title, page_id) ==
    [space_key |-> space_key, page_title |-> page_title, page_id |-> page_id]

extract_page_info(page_url) ==
    LET parsed == urlparse(page_url)
        qs == ParseQsPairs(parsed.query)
        page_id == QsGetFirst(qs, StrPageId)
        space_key == QsGetFirst(qs, StrSpaceKey)
        raw_title == QsGetFirst(qs, StrTitle)
        parts == Split(parsed.path, "/")
    IN  IF Contains(parsed.path, StrViewpage)
        THEN IF ~Falsy(page_id)
             THEN Returned(PageInfo(None, None, page_id))
             ELSE IF ~Falsy(space_key) /\ ~Falsy(raw_title)
             THEN Returned(PageInfo(space_key, unquote_plus(raw_title), None))
             ELSE Raised("ValueError")
        ELSE IF Contains(parsed.path, StrDisplay)
        THEN IF Len(parts) >= 3
             THEN Returned(PageInfo(parts[3],
                                    IF Len(parts) >= 4 THEN unquote_plus(parts[4])
                                    ELSE <<>>,
                                    None))
             ELSE Raised("ValueError")
        ELSE IF Contains(parsed.path, StrWiki) /\ Contains(parsed.path, StrSpaces)
        THEN IF Len(parts) >= 7
             THEN Returned(PageInfo(parts[4], unquote_plus(parts[7]), None))
             ELSE Raised("ValueError")
        ELSE Raised("ValueError")

(***************************************************************************)
(* extract_page_info applied to page URLs of the documented shapes.  Each  *)
(* input records the parts the URL was built from, so that the result can  *)
(* be compared with them.                                                  *)
(***************************************************************************)
Origin == BASE_URL
StrSP == <<"S","P">>
StrMyPlusPage == <<"M","y","+","P","a","g","e">>
StrT == <<"T">>
StrEscTitle == <<"a","%","2","B","b">>
Str12 == <<"1","2">>
Slash == <<"/">>
Amp == <<"&">>
Eq == <<"=">>

\* a context path in front of the documented path, as in /wiki/display/...
DisplayCtxs == {<<>>, Slash \o StrWiki, <<"/","c">>}
WikiCtxs == {<<>>, <<"/","c">>}
UrlSpaces == {StrSP, StrDisplay, StrWiki}
UrlTitles == {StrMyPlusPage, StrT, StrEscTitle, StrDisplay}

\* query strings of viewpage.action URLs with the parameters they carry
ViewpageQueries ==
    {[text |-> StrPageId \o Eq \o Str12,
      pageId |-> Str12, spaceKey |-> None, title |-> None],
     [text |-> StrSpaceKey \o Eq \o StrSP \o Amp \o StrTitle \o Eq \o StrMyPlusPage,
      pageId |-> None, spaceKey |-> StrSP, title |-> StrMyPlusPage],
     [text |-> StrTitle \o Eq \o StrT \o Amp \o StrSpaceKey \o Eq \o StrSP,
      pageId |-> None, spaceKey |-> StrSP, title |-> StrT],
     [text |-> StrSpaceKey \o Eq \o StrSP \o Amp \o StrTitle \o Eq \o StrEscTitle,
      pageId |-> None, spaceKey |-> StrSP, title |-> StrEscTitle],
     [text |-> StrPageId \o Eq \o Str12 \o Amp \o StrSpaceKey \o Eq \o StrSP
               \o Amp \o StrTitle \o Eq \o StrT,
      pageId |-> Str12, spaceKey |-> StrSP, title |-> StrT],
     [text |-> StrSpaceKey \o Eq \o StrSP,
      pageId |-> None, spaceKey |-> StrSP, title |-> None],
     [text |-> <<>>,
      pageId |-> None, spaceKey |-> None, title |-> None]}

\* paths of none of the documented shapes
OtherPaths ==
    {<<>>, Slash, <<"/","x","/","y">>,
     Slash \o StrSpaces \o Slash \o StrSP,
     Slash \o StrWiki \o <<"/","x">>,
     Slash \o StrWiki \o Slash \o StrSpaces \o Slash \o StrSP
         \o <<"/","o","v","e","r","v","i","e","w">>}

UrlInput(shape, pageId, space, title, url) ==
    [shape |-> shape, pageId |-> pageId, space |-> space, title |-> title,
     url |-> url]

PageUrls ==
    {UrlInput("viewpage", q.pageId, q.spaceKey, q.title,
              Origin \o c \o Slash \o StrPages \o Slash \o StrViewpage
                  \o <<"?">> \o q.text) :
        c \in DisplayCtxs, q \in ViewpageQueries}
    \cup
    {UrlInput("display", None, sp, t,
              Origin \o c \o Slash \o StrDisplay \o Slash \o sp \o Slash \o t) :
        c \in DisplayCtxs, sp \in UrlSpaces, t \in UrlTitles}
    \cup
    {UrlInput("wiki", None, sp, t,
              Origin \o c \o Slash \o StrWiki \o Slash \o StrSpaces \o Slash
                  \o sp \o Slash \o StrPages \o Slash \o Str12 \o Slash \o t) :
        c \in WikiCtxs, sp \in UrlSpaces, t \in UrlTitles}
    \cup
    {UrlInput("other", None, None, None, Origin \o p) : p \in OtherPaths}

InitUrl ==
    /\ RunIdle
    /\ arg \in PageUrls
    /\ ret = NotCalled

CallExtractPageInfo ==
    /\ ret = NotCalled
    /\ ret' = extract_page_info(arg.url)
    /\ UNCHANGED <<runVars, arg>>

NextUrl == CallExtractPageInfo

SpecUrl == InitUrl /\ [][NextUrl]_vars

\* C2: extract_page_info returns page id N (and no space or title) for a
\* viewpage.action URL with pageId=N; space S and the plus-decoded title for
\* a viewpage.action URL with spaceKey=S and title=T; the space and the
\* plus-decoded title segment for every URL .../display/SPACE/Title and
\* every URL .../wiki/spaces/SPACE/pages/<id>/Title, whatever the segments
\* are; and raises ValueError for any other path shape.
C2_ExtractPageInfo ==
    ret.done =>
        CASE arg.shape = "viewpage" /\ arg.pageId # None ->
                 /\ ~ret.raised
                 /\ ret.value = PageInfo(None, None, arg.pageId)
          [] arg.shape = "viewpage" /\ arg.pageId = None
                 /\ arg.space # None /\ arg.title # None ->
                 /\ ~ret.raised
                 /\ ret.value = PageInfo(arg.space, unquote_plus(arg.title), None)
          [] arg.shape \in {"display", "wiki"} ->
                 /\ ~ret.raised
                 /\ ret.value = PageInfo(arg.space, unquote_plus(arg.title), None)
          [] arg.shape = "other" ->
                 /\ ret.raised
                 /\ ret.value = "ValueError"
          [] OTHER -> TRUE

(***************************************************************************)
(* TwoPassConverter.  An element handed to a convert_* method is a record  *)
(* with a tag and the attributes and child text the method reads.  out     *)
(* holds, per element of doc, the Markdown its convert_* call returned;    *)
(* the intermediate Markdown is their concatenation.                       *)
(***************************************************************************)
NL2 == <<"\n", "\n">>

\* "x" * n
RECURSIVE Repeat(_, _)
Repeat(x, n) == IF n <= 0 THEN <<>> ELSE x \o Repeat(x, n - 1)

\* str(n) for n >= 0
RECURSIVE IntStr(_)
IntStr(n) ==
    IF n < 10 THEN <<ToString(n)>> ELSE IntStr(n \div 10) \o <<ToString(n % 10)>>

\* "".join(parts)
RECURSIVE Concat(_)
Concat(parts) == IF parts = <<>> THEN <<>> ELSE Head(parts) \o Concat(Tail(parts))

\* sep.join(parts)
RECURSIVE Join(_, _)
Join(parts, sep) ==
    IF parts = <<>> THEN <<>>
    ELSE IF Len(parts) = 1 THEN parts[1]
    ELSE parts[1] \o sep \o Join(Tail(parts), sep)

\* the text markdownify hands to convert_hN: the converted children, the
\* nh-number span (when there is one) followed by the rest of the heading
HeadingText(el) == (IF el.span = None THEN <<>> ELSE el.span) \o el.text

\* prefix gathered from data-nh-numbering and <span class="nh-number">
HeadingPrefix(el) ==
    LET p1 == IF ~Falsy(el.attr) THEN el.attr ELSE <<>>
        span_txt == IF el.span = None THEN <<>> ELSE Strip(el.span)
    IN  IF el.span # None /\ span_txt # <<>> /\ ~Contains(p1, span_txt)
        THEN p1 \o span_txt
        ELSE p1

\* heading_text.replace(' ', ' '), re.sub(r'\s+', ' ', ...).strip()
HeadingStripped(heading_text) ==
    Strip(SubRuns([i \in 1..Len(heading_text) |->
                      IF heading_text[i] = "NBSP" THEN " " ELSE heading_text[i]],
                  SpaceChars, <<" ">>))

\* re.match(r"^\d+(\.\d+)*", s): the pattern needs one leading digit; the
\* dotted groups are optional
MatchesNumbering(s) == s # <<>> /\ s[1] \in DigitChars

\* A final text that always puts the prefix in front.
FinalText_always_prefix(el) ==
    Strip(HeadingPrefix(el) \o HeadingStripped(HeadingText(el)))

\* final_text of _convert_heading
FinalText(el) ==
    LET stripped == HeadingStripped(HeadingText(el))
    IN  IF MatchesNumbering(stripped)
        THEN stripped
        ELSE Strip(HeadingPrefix(el) \o stripped)

\* A clamp that leaves the tag level alone.
ClampLevel_none(last, level_from_tag) == level_from_tag

\* final_level of _convert_heading
ClampLevel(last, level_from_tag) ==
    IF last = 0
    THEN level_from_tag
    ELSE IF level_from_tag > last + 1 THEN last + 1 ELSE level_from_tag

\* the Markdown heading returned: f"\n\n{hashes} {final_text}\n\n"
HeadingMarkdown(final_level, final_text) ==
    NL2 \o Repeat(<<"#">>, final_level) \o <<" ">> \o final_text \o NL2

\* convert_h1 .. convert_h6 -> _convert_heading
ConvertHeading(el) ==
    /\ el.tag = "h"
    /\ LET final_text == FinalText(el)
           final_level == ClampLevel(last_heading_level, el.level)
       IN  /\ last_heading_level' = final_level
           /\ headings' = Append(headings,
                                 [level |-> final_level,
                                  anchor |-> slugify(final_text),
                                  text |-> final_text])
           /\ out' = Append(out, HeadingMarkdown(final_level, final_text))
    /\ doc' = Append(doc, el)
    /\ UNCHANGED <<pc, err, dir, clears, fetched, writes, toc_placeholders,
                   final, arg, ret>>

\* f"<<<TOC-{placeholder_index}>>>"
PlaceholderText(i) ==
    <<"<","<","<","T","O","C","-">> \o IntStr(i) \o <<">",">",">">>

\* convert_div for data-macro-name="toc"
ConvertToc(el) ==
    /\ el.tag = "toc"
    /\ LET placeholder_text == PlaceholderText(Len(toc_placeholders))
       IN  /\ toc_placeholders' = Append(toc_placeholders, placeholder_text)
           /\ out' = Append(out, placeholder_text)
    /\ doc' = Append(doc, el)
    /\ UNCHANGED <<pc, err, dir, clears, fetched, writes, headings,
                   last_heading_level, final, arg, ret>>

\* one line of the TOC: f"{indent}- [{heading_text}](#{anchor})"
TocLine(h) ==
    (IF h.level = 1 THEN <<>> ELSE Repeat(<<" ", " ">>, h.level - 1))
    \o <<"-", " ", "[">> \o h.text \o <<"]", "(", "#">> \o h.anchor \o <<")">>

NoHeadingsNotice == NL2 \o <<"(No headings found for TOC)">> \o NL2

\* toc_markdown of finalize_toc
TocMarkdown(all_headings) ==
    IF all_headings = <<>>
    THEN NoHeadingsNotice
    ELSE Join([i \in 1..Len(all_headings) |-> TocLine(all_headings[i])], <<"\n">>)
         \o NL2

\* for placeholder in placeholders: text = text.replace(placeholder, toc)
RECURSIVE ReplaceAll(_, _, _)
ReplaceAll(text, placeholders, toc_markdown) ==
    IF placeholders = <<>>
    THEN text
    ELSE ReplaceAll(Replace(text, Head(placeholders), toc_markdown),
                    Tail(placeholders), toc_markdown)

\* TwoPassConverter.finalize_toc
finalize_toc(text) ==
    IF toc_placeholders = <<>>
    THEN text
    ELSE ReplaceAll(text, toc_placeholders, TocMarkdown(headings))

(***************************************************************************)
(* Images and diagrams.  The outcome of a request (the download succeeds   *)
(* or raises, the attachment listing answers or fails) is an input of the  *)
(* element that triggers it.                                               *)
(***************************************************************************)
StrHttp == <<"h","t","t","p">>
StrStatusPlaceholder ==
    <<"s","t","a","t","u","s","-","m","a","c","r","o","/",
      "p","l","a","c","e","h","o","l","d","e","r">>
StrImagesDir == <<".","/","i","m","a","g","e","s","/">>

\* os.path.basename(path)
Basename(path) ==
    LET slashes == {i \in 1..Len(path) : path[i] = "/"}
    IN  IF slashes = {} THEN path
        ELSE SubSeq(path, (CHOOSE i \in slashes : \A j \in slashes : j <= i) + 1,
                    Len(path))

\* unquote(os.path.basename(urlparse(url).path))
LocalFilename(url) == unquote(Basename(urlparse(url).path))

\* src as convert_img resolves it: data-image-src before src, a source not
\* starting with "http" put behind the base origin with every "//" removed
ImgSrc(el) ==
    LET src == IF el.data_image_src # None THEN el.data_image_src ELSE el.src
    IN  IF ~Falsy(src) /\ ~StartsWith(src, StrHttp)
        THEN RStripSlash(BASE_URL) \o Replace(src, <<"/", "/">>, <<>>)
        ELSE src

\* MarkdownConverter.convert_img of markdownify for an image with no alt and
\* no title: "![](src)"
ImgMarkdown(src) ==
    <<"!", "[", "]", "(">> \o (IF src = None THEN <<>> ELSE src) \o <<")">>

\* what a convert_* call does: it returns Markdown, having written file
\* into images/ (None: no file), or it raises
Ret(md, file) == [raised |-> FALSE, value |-> md, file |-> file]
Exc(e) == [raised |-> TRUE, value |-> e, file |-> None]

\* except Exception around download_image in convert_img: the reference
\* keeps the absolute URL
ImgDownloadFailed(src) == Ret(ImgMarkdown(src) \o NL2, None)

\* TwoPassConverter.convert_img
convert_img(el) ==
    LET src == ImgSrc(el)
    IN  IF src = None
        THEN \* "status-macro/placeholder" in None raises TypeError
             Exc("TypeError")
        ELSE IF Contains(src, StrStatusPlaceholder)
        THEN Ret(ImgMarkdown(el.src) \o NL2, None)
        ELSE IF el.download = "ok"
        THEN Ret(ImgMarkdown(StrImagesDir \o LocalFilename(src)) \o NL2,
                 LocalFilename(src))
        ELSE ImgDownloadFailed(src)

MarkerNoDiv == NL2 \o <<"[Error: No draw.io macro-data div found]">> \o NL2
MarkerEmpty == NL2 \o <<"[Error: draw.io macro-data div is empty]">> \o NL2
MarkerDecode == NL2 \o <<"[Error decoding draw.io macro data: {e}]">> \o NL2
MarkerNotFound == NL2 \o <<"[Drawio diagram attachment not found]">> \o NL2
MarkerDownload == NL2 \o <<"[Error downloading draw.io attachment: {e}]">> \o NL2
DrawioMarkers ==
    {MarkerNoDiv, MarkerEmpty, MarkerDecode, MarkerNotFound, MarkerDownload}

\* md_str of _convert_drawio_macro with the optional style annotation
DrawioMarkdown(att_title, local_filename, width_px, height_px) ==
    LET style_parts ==
            (IF width_px # None
             THEN <<<<"w","i","d","t","h",":"," ">> \o width_px \o <<"p","x",";">>>>
             ELSE <<>>)
            \o
            (IF height_px # None
             THEN <<<<"h","e","i","g","h","t",":"," ">> \o height_px \o <<"p","x",";">>>>
             ELSE <<>>)
    IN  <<"!", "[">> \o att_title \o <<"]", "(">> \o StrImagesDir \o local_filename
        \o <<")">>
        \o (IF style_parts # <<>>
            THEN <<"{", ":", " ", "s","t","y","l","e","=","\"">>
                 \o Join(style_parts, <<" ">>) \o <<"\"", "}">>
            ELSE <<>>)

\* A decoding whose exception is not caught.
DrawioDecodeFailed_uncaught == Exc("ValueError")

\* except Exception around b64decode / json.loads
DrawioDecodeFailed == Ret(MarkerDecode, None)

\* except Exception around download_image in _convert_drawio_macro
DrawioDownloadFailed == Ret(MarkerDownload, None)

\* TwoPassConverter._convert_drawio_macro.  el.payload tells what the hidden
\* macro-data child holds: "nodiv" (no such child), "empty", "undecodable"
\* (b64decode, decode or json.loads raises), "nonobject" (JSON that is no
\* object) or "object" (with el.diagram_name).
convert_drawio_macro(el) ==
    IF el.payload = "nodiv" THEN Ret(MarkerNoDiv, None)
    ELSE IF el.payload = "empty" THEN Ret(MarkerEmpty, None)
    ELSE IF el.payload = "undecodable" THEN DrawioDecodeFailed
    ELSE IF el.payload = "nonobject"
    THEN \* macro_json.get on a list, string or number raises
         Exc("AttributeError")
    ELSE LET got == get_drawio_attachment(el.resp, el.diagram_name)
         IN  IF got.raised THEN Exc(got.value)
             ELSE IF Falsy(got.value.url) THEN Ret(MarkerNotFound, None)
             ELSE IF el.download = "fail" THEN DrawioDownloadFailed
             ELSE Ret(NL2 \o DrawioMarkdown(got.value.title,
                                            LocalFilename(got.value.url),
                                            el.width, el.height) \o NL2,
                      LocalFilename(got.value.url))

\* The walk hands el to its convert_* method with result r: the Markdown
\* is appended and a downloaded file lands in images/, or the exception
\* ends the run.
Visit(el, r) ==
    /\ doc' = Append(doc, el)
    /\ IF r.raised
       THEN /\ pc' = "crashed"
            /\ err' = r.value
            /\ UNCHANGED <<out, dir, writes>>
       ELSE /\ out' = Append(out, r.value)
            /\ IF r.file # None
               THEN /\ dir' = [dir EXCEPT !.files = @ \cup {r.file}]
                    /\ writes' = Append(writes, r.file)
               ELSE UNCHANGED <<dir, writes>>
            /\ UNCHANGED <<pc, err>>

ConvertImg(el) ==
    /\ el.tag = "img"
    /\ Visit(el, convert_img(el))
    /\ UNCHANGED <<clears, fetched, headings, toc_placeholders,
                   last_heading_level, final, arg, ret>>

\* convert_div for data-macro-name="drawio"
ConvertDrawio(el) ==
    /\ el.tag = "drawio"
    /\ Visit(el, convert_drawio_macro(el))
    /\ UNCHANGED <<clears, fetched, headings, toc_placeholders,
                   last_heading_level, final, arg, ret>>

\* custom_md after converter.convert: final_md = converter.finalize_toc(...)
FinalizeToc ==
    /\ pc = "walk"
    /\ final' = finalize_toc(Concat(out))
    /\ pc' = "write"
    /\ UNCHANGED <<err, dir, clears, fetched, writes, doc, headings,
                   toc_placeholders, last_heading_level, out, arg, ret>>

(***************************************************************************)
(* The main script.                                                        *)
(***************************************************************************)
\* PAGE_URL values of a run
MainUrls ==
    {Origin \o Slash \o StrDisplay \o Slash \o StrSP \o Slash \o StrMyPlusPage,
     Origin \o <<"/","x","/","y">>}

\* what images/ may hold before the run: nothing (no directory), or a file
\* of an earlier run and a subdirectory (which clear_images_folder leaves
\* alone)
OldFile == <<"o","l","d",".","p","n","g">>
SubDir == <<"s","u","b">>
InitialDirs ==
    {[exists |-> FALSE, files |-> {}],
     [exists |-> TRUE, files |-> {OldFile, SubDir}]}

Init ==
    /\ pc = "start"
    /\ err = "none"
    /\ dir \in InitialDirs
    /\ clears = 0
    /\ fetched = FALSE
    /\ writes = <<>>
    /\ doc = <<>>
    /\ headings = <<>>
    /\ toc_placeholders = <<>>
    /\ last_heading_level = 0
    /\ out = <<>>
    /\ final = <<>>
    /\ arg = None
    /\ ret = NotCalled

\* PAGE_URL and BEARER_TOKEN from the environment or the prompt; exit(1)
\* when one is missing
ReadInputs ==
    /\ pc = "start"
    /\ \/ /\ pc' = "exit"
          /\ UNCHANGED arg
       \/ \E u \in MainUrls :
             /\ arg' = u
             /\ pc' = "extract"
    /\ UNCHANGED <<err, dir, clears, fetched, writes, doc, headings,
                   toc_placeholders, last_heading_level, out, final, ret>>

\* space_key, page_title, page_id = extract_page_info(PAGE_URL)
ExtractPageInfo ==
    /\ pc = "extract"
    /\ ret' = extract_page_info(arg)
    /\ IF ret'.raised
       THEN pc' = "crashed" /\ err' = ret'.value
       ELSE pc' = "clear" /\ UNCHANGED err
    /\ UNCHANGED <<dir, clears, fetched, writes, doc, headings,
                   toc_placeholders, last_heading_level, out, final, arg>>

\* clear_images_folder: unlink the files, keep the subdirectories, create
\* the directory when it is missing
ClearedDir(d) ==
    IF d.exists
    THEN [exists |-> TRUE, files |-> d.files \cap {SubDir}]
    ELSE [exists |-> TRUE, files |-> {}]

\* A script that clears images/ before every download of the walk as well.
ClearImagesFolder_per_download ==
    /\ \/ pc = "clear" /\ pc' = "fetch"
       \/ pc = "walk" /\ writes # <<>> /\ clears < 2 /\ UNCHANGED pc
    /\ dir' = ClearedDir(dir)
    /\ clears' = clears + 1
    /\ UNCHANGED <<err, fetched, writes, doc, headings, toc_placeholders,
                   last_heading_level, out, final, arg, ret>>

\* clear_images_folder("images") of the main script
ClearImagesFolder ==
    /\ pc = "clear"
    /\ dir' = ClearedDir(dir)
    /\ clears' = clears + 1
    /\ pc' = "fetch"
    /\ UNCHANGED <<err, fetched, writes, doc, headings, toc_placeholders,
                   last_heading_level, out, final, arg, ret>>

\* requests.get of the page, raise_for_status, "No page found." or the
\* HTML handed to custom_md
FetchPage ==
    /\ pc = "fetch"
    /\ fetched' = TRUE
    /\ \/ pc' = "crashed" /\ err' = "HTTPError"
       \/ pc' = "nopage" /\ UNCHANGED err
       \/ pc' = "walk" /\ UNCHANGED err
    /\ UNCHANGED <<dir, clears, writes, doc, headings, toc_placeholders,
                   last_heading_level, out, final, arg, ret>>

\* the Markdown file is written and the script ends
WriteMarkdown ==
    /\ pc = "write"
    /\ pc' = "done"
    /\ UNCHANGED <<err, dir, clears, fetched, writes, doc, headings,
                   toc_placeholders, last_heading_level, out, final, arg, ret>>

(***************************************************************************)
(* The documents of a run.                                                 *)
(***************************************************************************)
Heading(level, attr, span, text) ==
    [tag |-> "h", level |-> level, attr |-> attr, span |-> span, text |-> text]
Img(data_image_src, src, download) ==
    [tag |-> "img", data_image_src |-> data_image_src, src |-> src,
     download |-> download]
Drawio(payload, diagram_name, resp, download, width, height) ==
    [tag |-> "drawio", payload |-> payload, diagram_name |-> diagram_name,
     resp |-> resp, download |-> download, width |-> width, height |-> height]
TocMacro == [tag |-> "toc"]

StrIntro == <<"I","n","t","r","o">>
StrSubA == <<"S","u","b"," ","A">>
\* headings of a run: plain ones, and one whose own text reads <<<TOC-0>>>
RunHeadings ==
    {Heading(1, None, None, StrIntro),
     Heading(4, None, None, StrSubA),
     Heading(1, None, None, PlaceholderText(0))}

StrRelPng == <<"/","a",".","p","n","g">>
StrAbsPng == Origin \o <<"/","d","/","b","%","2","0","c",".","p","n","g">>
RunImgs ==
    {Img(None, None, "fail"),
     Img(None, StrRelPng, "ok"),
     Img(None, StrRelPng, "fail"),
     Img(StrAbsPng, StrRelPng, "ok"),
     Img(None, Origin \o Slash \o StrStatusPlaceholder, "ok")}

AttOf(t, m) == [title |-> t, mediaType |-> m, download |-> DownloadPrefix \o t]
ListingFailed == [ok |-> FALSE, results |-> <<>>]
ListingNoPng == [ok |-> TRUE, results |-> <<AttOf(NameA \o PngSuffix, "image/jpeg")>>]
ListingPng ==
    [ok |-> TRUE,
     results |-> <<AttOf(<<"c",".","p","n","g">>, "image/png"),
                   AttOf(NameA \o DrawioPngSuffix, "image/png")>>]
RunDrawios ==
    {Drawio("nodiv", <<>>, ListingPng, "ok", None, None),
     Drawio("empty", <<>>, ListingPng, "ok", None, None),
     Drawio("undecodable", <<>>, ListingPng, "ok", None, None),
     Drawio("nonobject", <<>>, ListingPng, "ok", None, None),
     Drawio("object", NameA, ListingFailed, "ok", None, None),
     Drawio("object", NameA, ListingNoPng, "ok", None, None),
     Drawio("object", NameA, ListingPng, "fail", None, None),
     Drawio("object", NameA, ListingPng, "ok", <<"1","0","0">>, None)}

Walking == pc = "walk" /\ Len(doc) < MaxElems

Next ==
    \/ ReadInputs
    \/ ExtractPageInfo
    \/ ClearImagesFolder
    \/ FetchPage
    \/ \E el \in RunHeadings : Walking /\ ConvertHeading(el)
    \/ Walking /\ ConvertToc(TocMacro)
    \/ \E el \in RunImgs : Walking /\ ConvertImg(el)
    \/ \E el \in RunDrawios : Walking /\ ConvertDrawio(el)
    \/ FinalizeToc
    \/ WriteMarkdown

Spec == Init /\ [][Next]_vars

(***************************************************************************)
(* C1: a converter walking headings of every tag level.                    *)
(***************************************************************************)
TagLevels == 1..6
ClampHeadings == {Heading(l, None, None, StrIntro) : l \in TagLevels}

\* custom_md: converter = TwoPassConverter(); converter.convert(html)
InitClamp ==
    /\ RunAt("walk")
    /\ arg = None
    /\ ret = NotCalled

NextClamp ==
    \E el \in ClampHeadings : pc = "walk" /\ Len(doc) < MaxHeadings /\ ConvertHeading(el)

SpecClamp == InitClamp /\ [][NextClamp]_vars

\* the number of "#" a returned heading starts with
HashesOf(md) ==
    LET body == SubSeq(md, 3, Len(md))
    IN  FirstOf(body, {" "}) - 1

\* C1: for every sequence of headings processed in document order, the level
\* emitted and recorded for a heading is at most one more than the level
\* emitted for the heading before it, the first heading keeps its tag level,
\* and last_heading_level is the emitted level after every heading, clamped
\* ones included.
C1_ClampedLevels ==
    /\ Len(headings) = Len(doc)
    /\ Len(out) = Len(doc)
    /\ \A i \in 1..Len(doc) :
          /\ HashesOf(out[i]) = headings[i].level
          /\ out[i] = HeadingMarkdown(headings[i].level, headings[i].text)
          /\ i = 1 => headings[i].level = doc[i].level
          /\ i > 1 => headings[i].level <= headings[i - 1].level + 1
    /\ doc = <<>> => last_heading_level = 0
    /\ doc # <<>> => last_heading_level = headings[Len(doc)].level

\* C1 witness: h1, h4, h6 were emitted as levels 1, 2, 3: the third heading is
\* clamped against the clamped level of the second.
C1_Witness ==
    /\ Len(doc) = 3
    /\ doc[1].level = 1 /\ doc[2].level = 4 /\ doc[3].level = 6
    /\ headings[1].level = 1 /\ headings[2].level = 2 /\ headings[3].level = 3
    /\ last_heading_level = 3

(***************************************************************************)
(* C7: a converter given one heading with numbering attributes and text.   *)
(***************************************************************************)
StrNum3 == <<"3", ".", " ">>
TextAttrs == {None, <<>>, StrNum3, <<" ", "3", ".">>, <<"3", ".", "1", " ">>}
TextSpans == {None, <<"3", ".">>, <<" ", "A", ".", " ">>, <<"3", ".", "1">>}
TextBodies ==
    {<<>>,
     <<"T">>,
     <<" ", "T", "NBSP", "\n", "x", " ">>,
     <<"2", "0", "2", "4", " ", "T">>,
     <<"1", ".", "2", " ", "T">>,
     <<" ", "7", " ", "T">>}
TextHeadings ==
    {Heading(2, a, sp, t) : a \in TextAttrs, sp \in TextSpans, t \in TextBodies}

InitText ==
    /\ RunAt("walk")
    /\ arg = None
    /\ ret = NotCalled

NextText ==
    \E el \in TextHeadings : pc = "walk" /\ Len(doc) < MaxTexts /\ ConvertHeading(el)

SpecText == InitText /\ [][NextText]_vars

\* the text between "## " and the closing blank line of a returned heading
EmittedText(md, level) == SubSeq(md, 3 + level + 1, Len(md) - 2)

LinkMarkdown(href) ==
    IF Falsy(href) THEN <<"t">>
    ELSE <<"[", "t", "]", "(">> \o href \o <<")">>

StrHttpScheme == <<"h","t","t","p",":","/","/">>
StrHttpsScheme == <<"h","t","t","p","s",":","/","/">>
StrMailto == <<"m","a","i","l","t","o",":">>

\* re.match(r'^(https?://|mailto:)', href)
IsAbsoluteHref(href) ==
    \/ StartsWith(href, StrHttpScheme)
    \/ StartsWith(href, StrHttpsScheme)
    \/ StartsWith(href, StrMailto)

\* el.attrs['href'] when convert_a hands the element to markdownify
ResolvedHref(href) ==
    IF Falsy(href) THEN href
    ELSE IF IsAbsoluteHref(href) THEN href
    ELSE RStripSlash(BASE_URL) \o href

\* TwoPassConverter.convert_a
convert_a(el) == Ret(LinkMarkdown(ResolvedHref(el.href)), None)

ConvertA(el) ==
    /\ el.tag = "a"
    /\ Visit(el, convert_a(el))
    /\ UNCHANGED <<clears, fetched, headings, toc_placeholders,
                   last_heading_level, final, arg, ret>>

Link(href) == [tag |-> "a", href |-> href]
HrefHeads ==
    {<<>>, StrHttpScheme \o <<"o">>, StrHttpsScheme \o <<"o">>, StrMailto \o <<"a">>,
     <<"#">>, <<"?">>, <<".", ".", "/">>, <<"h","t","t","p">>}
HrefTails == StringsUpTo({"x", "/", "."}, MaxHref)
Links == {Link(h \o t) : h \in HrefHeads, t \in HrefTails}

InitLink ==
    /\ RunAt("walk")
    /\ arg = None
    /\ ret = NotCalled

NextLink ==
    \E el \in Links : pc = "walk" /\ Len(doc) < MaxLinks /\ ConvertA(el)

SpecLink == InitLink /\ [][NextLink]_vars

\* the href of a returned link
EmittedHref(md) == SubSeq(md, 5, Len(md) - 1)

\* scheme://netloc of a URL
OriginOf(url) ==
    LET u == urlparse(url) IN u.scheme \o <<":", "/", "/">> \o u.netloc

\* a same-origin relative reference: no scheme and no network location
IsRelativeHref(href) ==
    LET u == urlparse(href)
    IN  href # <<>> /\ u.scheme = <<>> /\ u.netloc = <<>>

\* C6: the link resolver leaves an href beginning with http://, https:// or
\* mailto: unchanged, and rewrites every same-origin relative href to an
\* absolute URL on the base origin, /x/y becoming {base_origin}/x/y.
C6_LinkResolver ==
    \A i \in 1..Len(out) :
        LET href == doc[i].href
            emitted == EmittedHref(out[i])
        IN  /\ IsAbsoluteHref(href) => emitted = href
            /\ IsRelativeHref(href) =>
                  /\ OriginOf(emitted) = BASE_URL
                  /\ StartsWith(href, Slash) => emitted = BASE_URL \o href

(***************************************************************************)
(* Claims about a whole run (Spec).                                        *)
(***************************************************************************)
Converted == pc \in {"write", "done"}

\* the bullet list the TOC macro stands for: one bullet per heading, two
\* blanks of indentation per level above 1, the text linked to #slug
ExpectedToc(hs) ==
    IF hs = <<>>
    THEN NL2 \o <<"(No headings found for TOC)">> \o NL2
    ELSE Concat([i \in 1..Len(hs) |->
                    Repeat(<<" ", " ">>, hs[i].level - 1)
                    \o <<"-", " ", "[">> \o hs[i].text
                    \o <<"]", "(", "#">> \o hs[i].anchor \o <<")", "\n">>])
         \o <<"\n">>

\* C3: for every document with at least one TOC macro, after the walk and
\* finalize_toc no placeholder token remains in the output and every
\* placeholder position holds the same text: the no-headings notice when no
\* heading was recorded, otherwise one bullet per heading of the whole
\* document, headings after the placeholder included.
C3_TocResolved ==
    (Converted /\ \E i \in 1..Len(doc) : doc[i].tag = "toc") =>
        /\ Len(headings) = Cardinality({i \in 1..Len(doc) : doc[i].tag = "h"})
        /\ \A k \in 1..Len(toc_placeholders) :
              ~Contains(final, PlaceholderText(k - 1))
        /\ final = Concat([i \in 1..Len(out) |->
                              IF doc[i].tag = "toc"
                              THEN ExpectedToc(headings)
                              ELSE out[i]])

\* the image elements of doc that convert_img tries to download
DownloadAttempted(el) ==
    /\ el.tag = "img"
    /\ ~(\E s \in {el.data_image_src, el.src} :
            s # None /\ Contains(s, StrStatusPlaceholder))

\* C4: a failure to resolve or download an image is not fatal: the walk goes
\* on, the failed image's reference keeps its absolute URL, and only a
\* downloaded image is rewritten to ./images/<basename>.
C4_ImageFailureNonFatal ==
    \A i \in 1..Len(doc) :
        DownloadAttempted(doc[i]) =>
            /\ i <= Len(out)
            /\ StartsWith(SubSeq(out[i], 5, Len(out[i])), StrImagesDir)
                  <=> doc[i].download = "ok"
            /\ doc[i].download = "fail" =>
                  StartsWith(SubSeq(out[i], 5, Len(out[i])), BASE_URL)

\* the errors of a diagram macro that the macro answers itself
DrawioLocalError(el) ==
    /\ el.tag = "drawio"
    /\ \/ el.payload \in {"nodiv", "empty", "undecodable"}
       \/ /\ el.payload = "object"
          /\ el.resp.ok
          /\ \/ PngPositions(el.resp.results) = {}
             \/ el.download = "fail"

\* a diagram macro whose attachment listing request fails
DrawioLookupFailed(el) ==
    el.tag = "drawio" /\ el.payload = "object" /\ ~el.resp.ok

====
